---- MODULE Spec2Model ----
(***************************************************************************)
(* Patch Explorer (src/src/Home.tsx): the patch collection of the Home     *)
(* component, its asynchronous upload batches (one FileReader per file),   *)
(* tab selection, removal, and the derived "present in all patches" view.  *)
(***************************************************************************)
EXTENDS Integers, Sequences, FiniteSets, TLC

\* ------------------------------------------------------------------ bounds
\* number of file reads started during a session (over all admitted batches)
MaxUploads == 2
\* largest value of Date.now() (the clock starts at 0)
MaxClock == 1

\* ------------------------------------------------------- program constants
\* Home.tsx:60  patchFiles.length + files.length > 5
MaxPatches == 5

\* the empty string '' of activeTabId / error / an absent name
NoId == <<>>
NoError == <<>>
NoName == ""

\* ---------------------------------------------------------------- helpers
Range(s) == {s[i] : i \in DOMAIN s}

RECURSIVE Flatten(_)
Flatten(ss) == IF ss = <<>> THEN <<>> ELSE Head(ss) \o Flatten(Tail(ss))

\* ------------------------------------------------- the files on the disk
\* A file's text is a sequence of per-file sections of a unified diff; a
\* section has the names of its --- / +++ header lines ("" when the side is
\* absent) and its hunks, each a sequence of lines, each line a sequence of
\* characters starting with the marker '+', '-' or ' '.
SecX1 == [old |-> "x.txt", new |-> "x.txt", hunks |-> << << <<"-","0">>, <<"+","1">> >> >>]
SecX2 == [old |-> "x.txt", new |-> "x.txt", hunks |-> << << <<" ","c">>, <<"+","2">> >> >>]
SecY  == [old |-> "y.txt", new |-> "y.txt", hunks |-> << << <<"+","1">> >> >>]
SecDelX == [old |-> "x.txt", new |-> NoName, hunks |-> << << <<"-","0">> >> >>]

DiskFiles ==
  << [name |-> "a.patch", content |-> <<SecX1, SecY>>],
     [name |-> "b.patch", content |-> <<SecX2, SecX1>>],
     [name |-> "c.patch", content |-> <<SecDelX, SecY>>],
     [name |-> "e.patch", content |-> <<>>] >>

\* the selections a file dialog can return: distinct files, in disk order
\* (the empty selection included)
RECURSIVE SortedSeq(_)
SortedSeq(S) ==
  IF S = {} THEN <<>>
  ELSE LET m == CHOOSE x \in S : \A y \in S : x <= y
       IN <<m>> \o SortedSeq(S \ {m})

Selections ==
  {SortedSeq(S) : S \in SUBSET DOMAIN DiskFiles}

\* ----------------------------------------------------- diff2html's parse
LineType(line) ==
  IF Head(line) = "+" THEN "insert"
  ELSE IF Head(line) = "-" THEN "delete"
  ELSE "context"

ParseBlock(hunk) ==
  [lines |-> [i \in DOMAIN hunk |-> [type |-> LineType(hunk[i]), content |-> hunk[i]]]]

parse(content) ==
  [s \in DOMAIN content |->
     [oldName |-> content[s].old,
      newName |-> content[s].new,
      blocks  |-> [h \in DOMAIN content[s].hunks |-> ParseBlock(content[s].hunks[h])]]]

\* ------------------------------------------------------------------ state
VARIABLES
  patchFiles,    \* useState<PatchFile[]>: sequence of [id, name, diffs (, src)]
  activeTabId,   \* useState<string>
  error,         \* useState<string>
  batches,       \* the closures of the accepted handleFileUpload calls
  clock,         \* Date.now()
  isModalOpen,   \* useState<boolean>
  selectedFileName,  \* useState<string>
  modal,         \* modalDiffContainerRef.current.innerHTML, as a sequence of
                 \* sections; <<>> while the container is empty or unmounted
  argDiff,       \* the argument of a call of getFileContent taken on its own
  fileContent    \* <<>> before that call has returned, <<its result>> after

modalVars == <<isModalOpen, selectedFileName, modal>>
callVars == <<argDiff, fileContent>>

vars == <<patchFiles, activeTabId, error, batches, clock, isModalOpen, selectedFileName, modal,
         argDiff, fileContent>>

\* the three messages of setError
CapacityError == <<"Maximum 5 patch files allowed">>
\* mutation: the message does not name the file
FailedToReadUnnamed(name) == <<"Failed to read file: ", "">>
FailedToRead(name) == <<"Failed to read file: ", name>>
ErrorReading(name) == <<"Error reading file: ", name>>

\* `${Date.now()}-${index}`
FileId(now, index) == <<now, index>>

\* no call of getFileContent on its own is under way
NoDiff == [oldName |-> NoName, newName |-> NoName]
NoCall == argDiff = NoDiff /\ fileContent = <<>>

Init ==
  /\ NoCall
  /\ patchFiles = <<>>
  /\ activeTabId = NoId
  /\ error = NoError
  /\ batches = <<>>
  /\ clock = 0
  /\ isModalOpen = FALSE
  /\ selectedFileName = NoName
  /\ modal = <<>>

\* ------------------------------------------------------------ strings
\* A string that the code takes apart is a sequence of characters; "\n" is
\* the newline.  Chars gives the characters of the names the model uses.
Chars(name) ==
  CASE name = "x.txt" -> <<"x", ".", "t", "x", "t">>
    [] name = "y.txt" -> <<"y", ".", "t", "x", "t">>
    [] name = "a.patch" -> <<"a", ".", "p", "a", "t", "c", "h">>
    [] name = "b.patch" -> <<"b", ".", "p", "a", "t", "c", "h">>
    [] name = "c.patch" -> <<"c", ".", "p", "a", "t", "c", "h">>
    [] name = "d.patch" -> <<"d", ".", "p", "a", "t", "c", "h">>
    [] name = "e.patch" -> <<"e", ".", "p", "a", "t", "c", "h">>
    [] name = "m.patch" -> <<"m", ".", "p", "a", "t", "c", "h">>
    [] name = "n.patch" -> <<"n", ".", "p", "a", "t", "c", "h">>
    [] name = "v@@2.patch" -> <<"v", "@", "@", "2", ".", "p", "a", "t", "c", "h">>
    [] OTHER -> <<>>

\* lines.join(sep)
RECURSIVE Join(_, _)
Join(lines, sep) ==
  IF lines = <<>> THEN <<>>
  ELSE IF Len(lines) = 1 THEN lines[1]
  ELSE lines[1] \o sep \o Join(Tail(lines), sep)

\* str.split('\n')
RECURSIVE SplitLines(_)
SplitLines(str) ==
  IF \A k \in DOMAIN str : str[k] # "\n" THEN <<str>>
  ELSE LET k == CHOOSE j \in DOMAIN str :
                   str[j] = "\n" /\ \A h \in 1..(j - 1) : str[h] # "\n"
       IN <<SubSeq(str, 1, k - 1)>> \o SplitLines(SubSeq(str, k + 1, Len(str)))

\* str.includes(sub)
Includes(str, sub) ==
  \E k \in 0..(Len(str) - Len(sub)) : SubSeq(str, k + 1, k + Len(sub)) = sub

\* str.substring(1)
Substring1(str) == IF str = <<>> THEN <<>> ELSE Tail(str)

\* ------------------------------------------------------------ the modal
\* getFileDiffsFromAllPatches: for each patch, in order, its first diff
\* whose newName or oldName is fileName, if it has one
\* mutation: only the new name is compared
MatchingDiffsNewName(patchFile, fileName) ==
  SelectSeq(patchFile.diffs, LAMBDA diff : diff.newName = fileName)

MatchingDiffs(patchFile, fileName) ==
  SelectSeq(patchFile.diffs,
            LAMBDA diff : diff.newName = fileName \/ diff.oldName = fileName)

getFileDiffsFromAllPatches(pf, fileName) ==
  LET found == SelectSeq(pf, LAMBDA patchFile : MatchingDiffs(patchFile, fileName) # <<>>)
  IN [k \in DOMAIN found |->
        [patchName |-> found[k].name, diff |-> Head(MatchingDiffs(found[k], fileName))]]

\* mutation: the context lines are pushed too
BlockLinesWithContext(block) ==
  IF "lines" \notin DOMAIN block THEN <<>>
  ELSE [k \in DOMAIN block.lines |-> Substring1(block.lines[k].content)]

\* mutation: only the inserted lines are pushed
BlockLinesInsertOnly(block) ==
  IF "lines" \notin DOMAIN block THEN <<>>
  ELSE LET changed == SelectSeq(block.lines, LAMBDA line : line.type = "insert")
       IN [k \in DOMAIN changed |-> Substring1(changed[k].content)]

\* the lines pushed by one block: block.lines?.forEach(...)
BlockLines(block) ==
  IF "lines" \notin DOMAIN block THEN <<>>
  ELSE LET changed == SelectSeq(block.lines,
                                LAMBDA line : line.type = "delete" \/ line.type = "insert")
       IN [k \in DOMAIN changed |-> Substring1(changed[k].content)]

\* mutation: every line is followed by a newline, the last one and the
\* empty list of lines included
getFileContentTerminated(diff) ==
  IF "blocks" \notin DOMAIN diff THEN <<"\n">>
  ELSE Join(Flatten([h \in DOMAIN diff.blocks |-> BlockLines(diff.blocks[h])]), <<"\n">>)
         \o <<"\n">>

\* getFileContent: diff.blocks?.forEach(...); return lines.join('\n')
getFileContent(diff) ==
  IF "blocks" \notin DOMAIN diff THEN <<>>
  ELSE Join(Flatten([h \in DOMAIN diff.blocks |-> BlockLines(diff.blocks[h])]), <<"\n">>)

\* jsdiff's createTwoFilesPatch: the Index line when both labels are equal,
\* the separator, the two header lines and, when the contents differ, one
\* hunk: the common leading lines, the old lines that differ, the new lines
\* that differ, the common trailing lines.
RECURSIVE CommonPrefix(_, _)
CommonPrefix(xs, ys) ==
  IF xs = <<>> \/ ys = <<>> \/ Head(xs) # Head(ys) THEN 0
  ELSE 1 + CommonPrefix(Tail(xs), Tail(ys))

Reverse(xs) == [k \in DOMAIN xs |-> xs[Len(xs) + 1 - k]]

Prefixed(mark, lines) == [k \in DOMAIN lines |-> <<mark>> \o lines[k]]

HunkLines(oldStr, newStr) ==
  LET old == IF oldStr = <<>> THEN <<>> ELSE SplitLines(oldStr)
      new == IF newStr = <<>> THEN <<>> ELSE SplitLines(newStr)
      pre == CommonPrefix(old, new)
      oldRest == SubSeq(old, pre + 1, Len(old))
      newRest == SubSeq(new, pre + 1, Len(new))
      suf == CommonPrefix(Reverse(oldRest), Reverse(newRest))
  IN << <<"@", "@", " ", "-", "1", " ", "+", "1", " ", "@", "@">> >>
     \o Prefixed(" ", SubSeq(old, 1, pre))
     \o Prefixed("-", SubSeq(oldRest, 1, Len(oldRest) - suf))
     \o Prefixed("+", SubSeq(newRest, 1, Len(newRest) - suf))
     \o Prefixed(" ", SubSeq(oldRest, Len(oldRest) - suf + 1, Len(oldRest)))

createTwoFilesPatch(oldFileName, newFileName, oldStr, newStr) ==
  LET head == (IF oldFileName = newFileName
                 THEN << <<"I", "n", "d", "e", "x", ":", " ">> \o oldFileName >>
                 ELSE <<>>)
              \o << [k \in 1..67 |-> "="],
                    <<"-", "-", "-", " ">> \o oldFileName,
                    <<"+", "+", "+", " ">> \o newFileName >>
      hunk == IF oldStr = newStr THEN <<>> ELSE HunkLines(oldStr, newStr)
  IN Join(head \o hunk, <<"\n">>) \o <<"\n">>

\* `${selectedFileName} (${patchName})`
Label(fileName, patchName) == Chars(fileName) \o <<" ", "(">> \o Chars(patchName) \o <<")">>

\* unifiedDiff.includes('@@') && (unifiedDiff.includes('+') || unifiedDiff.includes('-'))
HasChanges(unifiedDiff) ==
  /\ Includes(unifiedDiff, <<"@", "@">>)
  /\ (Includes(unifiedDiff, <<"+">>) \/ Includes(unifiedDiff, <<"-">>))

\* diff2html's parse applied to the text made by createTwoFilesPatch: the
\* names of the two header lines and, when the text has a hunk header, one
\* block of the lines that follow it
ParseUnified(unifiedDiff) ==
  LET lines == SplitLines(unifiedDiff)
      starts(k, pre) == Len(lines[k]) >= Len(pre) /\ SubSeq(lines[k], 1, Len(pre)) = pre
      first(pre) == CHOOSE k \in DOMAIN lines :
                       starts(k, pre) /\ \A j \in 1..(k - 1) : ~starts(j, pre)
      old == first(<<"-", "-", "-", " ">>)
      new == first(<<"+", "+", "+", " ">>)
      hdr == {k \in DOMAIN lines : k > new /\ starts(k, <<"@", "@">>)}
      body == IF hdr = {} THEN <<>>
              ELSE LET h == CHOOSE k \in hdr : \A j \in hdr : k <= j
                   IN SelectSeq(SubSeq(lines, h + 1, Len(lines)), LAMBDA l : l # <<>>)
  IN << [oldName |-> SubSeq(lines[old], 5, Len(lines[old])),
         newName |-> SubSeq(lines[new], 5, Len(lines[new])),
         blocks |-> IF hdr = {} THEN <<>> ELSE <<ParseBlock(body)>>] >>

\* The sections the effect writes for the contributors `fileDiffs`; `throws`
\* tells whether parse/html of the synthetic diff throws inside the try.
\* Sections: <<"comparison", first, second, diffs>>, <<"noChanges", first,
\* second>>, <<"warning">>, <<"heading">> (Individual Diffs:),
\* <<"individual", patchName, diff>>, <<"close">> (the trailing </div>).

\* mutation: the catch block leaves modalContent empty
PairSectionsSilentCatch(first, second, unifiedDiff, hasChanges, throws) ==
  IF ~hasChanges
    THEN << <<"noChanges", first.patchName, second.patchName>> >>
  ELSE IF throws
    THEN <<>>
  ELSE << <<"comparison", first.patchName, second.patchName, ParseUnified(unifiedDiff)>>,
          <<"heading">> >>

\* the branch of exactly two contributors: what modalContent is set to
PairSections(first, second, unifiedDiff, hasChanges, throws) ==
  IF ~hasChanges
    THEN << <<"noChanges", first.patchName, second.patchName>> >>
  ELSE IF throws
    THEN << <<"warning">> >>
  ELSE << <<"comparison", first.patchName, second.patchName, ParseUnified(unifiedDiff)>>,
          <<"heading">> >>

\* mutation: the individual diffs are shown only as a fallback, when there
\* was no pairwise comparison
IndividualSectionsFallbackOnly(fileDiffs, hasChanges) ==
  IF hasChanges /\ Len(fileDiffs) # 2
    THEN [k \in DOMAIN fileDiffs |->
            <<"individual", fileDiffs[k].patchName, fileDiffs[k].diff>>]
    ELSE <<>>

\* if (hasChanges) fileDiffs.forEach(...)
IndividualSections(fileDiffs, hasChanges) ==
  IF hasChanges
    THEN [k \in DOMAIN fileDiffs |->
            <<"individual", fileDiffs[k].patchName, fileDiffs[k].diff>>]
    ELSE <<>>

ModalContent(fileDiffs, fileName, throws) ==
  LET pair == Len(fileDiffs) = 2
      first == fileDiffs[1]
      second == fileDiffs[2]
      unifiedDiff == createTwoFilesPatch(Label(fileName, first.patchName),
                                         Label(fileName, second.patchName),
                                         getFileContent(first.diff),
                                         getFileContent(second.diff))
      hasChanges == IF pair THEN HasChanges(unifiedDiff) ELSE TRUE
  IN (IF pair THEN PairSections(first, second, unifiedDiff, hasChanges, throws) ELSE <<>>)
     \o IndividualSections(fileDiffs, hasChanges)
     \o (IF pair THEN << <<"close">> >> ELSE <<>>)

\* mutation: with no contributor the effect empties the container
ModalEffectClears(pf, fileName, open, current, throws) ==
  IF fileName # NoName /\ open
    THEN LET fileDiffs == getFileDiffsFromAllPatches(pf, fileName)
         IN IF Len(fileDiffs) > 0 THEN ModalContent(fileDiffs, fileName, throws)
            ELSE <<>>
    ELSE current

\* The effect that renders the modal: it runs after a render in which
\* selectedFileName, isModalOpen or the patch collection has changed, and
\* writes innerHTML only when there is a contributor.
ModalEffect(pf, fileName, open, current, throws) ==
  IF fileName # NoName /\ open
    THEN LET fileDiffs == getFileDiffsFromAllPatches(pf, fileName)
         IN IF Len(fileDiffs) > 0 THEN ModalContent(fileDiffs, fileName, throws)
            ELSE current
    ELSE current

\* ------------------------------------------------------------ operations
\* mutation: the new patches are appended in the order of their selection
UpdatedInSelectionOrder(prev, newFiles) ==
  prev \o [k \in DOMAIN newFiles |->
            newFiles[CHOOSE j \in DOMAIN newFiles :
               Cardinality({h \in DOMAIN newFiles : newFiles[h].src[2] < newFiles[j].src[2]})
                 = k - 1]]

\* The commit of a batch: setPatchFiles(prev => [...prev, ...newFiles]).
Updated(prev, newFiles) == prev \o newFiles

\* The batch is admitted when patchFiles.length + files.length <= 5.
OverCapacity(n, k) == n + k > MaxPatches

\* mutation: the capacity branch sets the error but does not return
handleFileUploadNoReturn(sel) ==
  /\ Len(patchFiles) < MaxPatches
  /\ Len(sel) > 0
  /\ error' = IF OverCapacity(Len(patchFiles), Len(sel)) THEN CapacityError ELSE error
  /\ batches' = Append(batches,
        [files |-> [i \in DOMAIN sel |-> DiskFiles[sel[i]]],
         reader |-> [i \in DOMAIN sel |-> "pending"],
         newFiles |-> <<>>,
         filesProcessed |-> 0,
         activeTabId |-> activeTabId])
  /\ UNCHANGED <<callVars, patchFiles, activeTabId, clock, modalVars>>

\* handleFileUpload: the change event of the file input, which is disabled
\* while patchFiles.length >= 5.  `sel` are the indices of the chosen files.
handleFileUpload(sel) ==
  /\ Len(patchFiles) < MaxPatches
  /\ IF Len(sel) = 0
       THEN UNCHANGED vars
     ELSE IF OverCapacity(Len(patchFiles), Len(sel))
       THEN /\ error' = CapacityError
            /\ UNCHANGED <<callVars, patchFiles, activeTabId, batches, clock, modalVars>>
     ELSE /\ batches' = Append(batches,
                [files |-> [i \in DOMAIN sel |-> DiskFiles[sel[i]]],
                 reader |-> [i \in DOMAIN sel |-> "pending"],
                 newFiles |-> <<>>,
                 filesProcessed |-> 0,
                 activeTabId |-> activeTabId])
          /\ UNCHANGED <<callVars, patchFiles, activeTabId, error, clock, modalVars>>

\* mutation: the batch is committed by its first successful read
AllProcessedFirst(B) == B.filesProcessed >= 1

\* mutation: the batch is committed once no read of it is pending
AllSettled(B) == \A i \in DOMAIN B.reader : B.reader[i] # "pending"

\* mutation: the counter is compared with one more than the number of files
AllProcessedOffByOne(B) == B.filesProcessed = Len(B.files) + 1

\* if (filesProcessed === files.length)
AllProcessed(B) == B.filesProcessed = Len(B.files)

\* reader.onload of the file at position i (index i - 1) of batch b.  The
\* reader field records how each FileReader ended: "pending" (in flight),
\* "loaded" (onload, a patch was pushed), "empty" (onload with no content)
\* or "failed" (onerror).
readerOnload(b, i) ==
  /\ b \in DOMAIN batches
  /\ i \in DOMAIN batches[b].files
  /\ batches[b].reader[i] = "pending"
  /\ LET B == batches[b]
         file == B.files[i]
         content == file.content
     IN IF content = <<>>
          THEN /\ error' = FailedToRead(file.name)
               /\ batches' = [batches EXCEPT ![b].reader[i] = "empty"]
               /\ UNCHANGED <<callVars, patchFiles, activeTabId, clock, modalVars>>
        ELSE LET newFiles == Append(B.newFiles,
                                [id |-> FileId(clock, i - 1),
                                 name |-> file.name,
                                 diffs |-> parse(content),
                                 src |-> <<b, i>>])
                 after == [B EXCEPT !.reader[i] = "loaded",
                                    !.newFiles = newFiles,
                                    !.filesProcessed = B.filesProcessed + 1]
             IN /\ batches' = [batches EXCEPT ![b] = after]
                /\ IF AllProcessed(after)
                     THEN LET updated == Updated(patchFiles, newFiles)
                          IN /\ patchFiles' = updated
                             /\ activeTabId' =
                                  IF Len(updated) > 0 /\ B.activeTabId = NoId
                                    THEN updated[1].id
                                    ELSE activeTabId
                             /\ error' = NoError
                             /\ \E throws \in BOOLEAN :
                                   modal' = ModalEffect(updated, selectedFileName,
                                                        isModalOpen, modal, throws)
                   ELSE UNCHANGED <<patchFiles, activeTabId, error, modal>>
                /\ UNCHANGED <<callVars, clock, isModalOpen, selectedFileName>>

\* reader.onerror of the file at position i of batch b
readerOnerror(b, i) ==
  /\ b \in DOMAIN batches
  /\ i \in DOMAIN batches[b].files
  /\ batches[b].reader[i] = "pending"
  /\ error' = ErrorReading(batches[b].files[i].name)
  /\ batches' = [batches EXCEPT ![b].reader[i] = "failed"]
  /\ UNCHANGED <<callVars, patchFiles, activeTabId, clock, modalVars>>

\* prev.filter(file => file.id !== fileId)
FilterOut(prev, fileId) == SelectSeq(prev, LAMBDA file : file.id # fileId)

\* mutation: the removal leaves the active tab id alone while patches remain
removeFileKeepsActive(fileId) ==
  LET updated == FilterOut(patchFiles, fileId)
  IN /\ patchFiles' = updated
     /\ activeTabId' = IF Len(updated) = 0 THEN NoId ELSE activeTabId
     /\ \E throws \in BOOLEAN :
           modal' = ModalEffect(updated, selectedFileName, isModalOpen, modal, throws)
     /\ UNCHANGED <<callVars, error, batches, clock, isModalOpen, selectedFileName>>

removeFile(fileId) ==
  LET updated == FilterOut(patchFiles, fileId)
  IN /\ patchFiles' = updated
     /\ activeTabId' =
          IF activeTabId = fileId /\ Len(updated) > 0 THEN updated[1].id
          ELSE IF Len(updated) = 0 THEN NoId
          ELSE activeTabId
     /\ \E throws \in BOOLEAN :
           modal' = ModalEffect(updated, selectedFileName, isModalOpen, modal, throws)
     /\ UNCHANGED <<callVars, error, batches, clock, isModalOpen, selectedFileName>>

\* onClick={() => setActiveTabId(file.id)} of the tab of a loaded patch
\* mutation: selecting a tab also clears the error
selectTabClearsError(p) ==
  /\ p \in DOMAIN patchFiles
  /\ activeTabId' = patchFiles[p].id
  /\ error' = NoError
  /\ UNCHANGED <<callVars, patchFiles, batches, clock, modalVars>>

selectTab(p) ==
  /\ p \in DOMAIN patchFiles
  /\ activeTabId' = patchFiles[p].id
  /\ UNCHANGED <<callVars, patchFiles, error, batches, clock, modalVars>>

\* the clock advances between events
Tick ==
  /\ clock < MaxClock
  /\ clock' = clock + 1
  /\ UNCHANGED <<callVars, patchFiles, activeTabId, error, batches, modalVars>>

\* the ids removeFile is called with: the remove button of a loaded patch,
\* or a stale id that no loaded patch has
StaleId == FileId(MaxClock + 1, 0)
RemovableIds == {patchFiles[p].id : p \in DOMAIN patchFiles} \cup {StaleId}

\* the file reads started so far
RECURSIVE Reads(_)
Reads(bs) == IF bs = <<>> THEN 0 ELSE Len(Head(bs).files) + Reads(Tail(bs))

\* a selection may be submitted while the session's read budget allows its
\* reads, or when it is rejected and starts none
WithinBudget(sel, budget) ==
  \/ OverCapacity(Len(patchFiles), Len(sel))
  \/ Reads(batches) + Len(sel) <= budget

Next ==
  \/ \E sel \in Selections : WithinBudget(sel, MaxUploads) /\ handleFileUpload(sel)
  \/ \E b \in DOMAIN batches : \E i \in DOMAIN batches[b].files : readerOnload(b, i)
  \/ \E b \in DOMAIN batches : \E i \in DOMAIN batches[b].files : readerOnerror(b, i)
  \/ \E fileId \in RemovableIds : removeFile(fileId)
  \/ \E p \in DOMAIN patchFiles : selectTab(p)
  \/ Tick

Spec == Init /\ [][Next]_vars

\* The sub-behaviours in which the user only ever selects the patch series
\* a.patch, b.patch, c.patch (all three, or the first two) and every read
\* succeeds in the same millisecond; the session may start one read more
\* than the ceiling.
SeriesSelections == { <<1, 2, 3>>, <<1, 2>> }

NextCapacity ==
  \/ \E sel \in SeriesSelections :
        WithinBudget(sel, MaxPatches + 1) /\ handleFileUpload(sel)
  \/ \E b \in DOMAIN batches : \E i \in DOMAIN batches[b].files : readerOnload(b, i)
  \/ \E fileId \in RemovableIds : removeFile(fileId)

SpecCapacity == Init /\ [][NextCapacity]_vars

\* ------------------------------------------------- the combined summary
\* commonFiles as the list of its push operations, in order: one
\* <<diff.newName, patchFile.name>> per diff whose newName is truthy
\* mutation: the key falls back to the old name (diff.newName || diff.oldName)
PatchEntriesAnyName(patchFile) ==
  LET key(diff) == IF diff.newName # NoName THEN diff.newName ELSE diff.oldName
      named == SelectSeq(patchFile.diffs, LAMBDA diff : key(diff) # NoName)
  IN [d \in DOMAIN named |-> <<key(named[d]), patchFile.name>>]

PatchEntries(patchFile) ==
  LET named == SelectSeq(patchFile.diffs, LAMBDA diff : diff.newName # NoName)
  IN [d \in DOMAIN named |-> <<named[d].newName, patchFile.name>>]

CommonEntries(pf) == Flatten([p \in DOMAIN pf |-> PatchEntries(pf[p])])

\* commonFiles: Record<string, string[]>
commonFiles(pf) ==
  LET entries == CommonEntries(pf)
  IN [fileName \in {e[1] : e \in Range(entries)} |->
        LET mine == SelectSeq(entries, LAMBDA e : e[1] = fileName)
        IN [k \in DOMAIN mine |-> mine[k][2]]]

\* Object.entries(commonFiles): the keys in the order of their insertion
RECURSIVE KeysInOrder(_, _)
KeysInOrder(entries, seen) ==
  IF entries = <<>> THEN <<>>
  ELSE IF Head(entries)[1] \in seen THEN KeysInOrder(Tail(entries), seen)
  ELSE <<Head(entries)[1]>> \o KeysInOrder(Tail(entries), seen \cup {Head(entries)[1]})

presentInAllPatches(pf) ==
  LET common == commonFiles(pf)
  IN SelectSeq(KeysInOrder(CommonEntries(pf), {}),
               LAMBDA fileName : Len(pf) = Len(common[fileName]))

\* the value null of combinedSummary
Null == [null |-> TRUE]

\* mutation: the summary is computed only for two or more patches
combinedSummaryFromTwo(pf) ==
  IF Len(pf) > 1
    THEN [totalPatchFiles |-> Len(pf), presentInAllPatches |-> presentInAllPatches(pf)]
    ELSE Null

combinedSummary(pf) ==
  IF Len(pf) > 0
    THEN [totalPatchFiles |-> Len(pf), presentInAllPatches |-> presentInAllPatches(pf)]
    ELSE Null

\* ------------------------------------------------- the active patch's summary
\* patchFiles.find(file => file.id === activeTabId); Null when none is found
activeFile(pf, tabId) ==
  LET found == SelectSeq(pf, LAMBDA file : file.id = tabId)
  IN IF found = <<>> THEN Null ELSE Head(found)

\* mutation: a context line is counted with the lines of either type
LineCountWithContext(diffs, type) ==
  Len(Flatten([d \in DOMAIN diffs |->
        IF "blocks" \notin DOMAIN diffs[d] THEN <<>>
        ELSE Flatten([h \in DOMAIN diffs[d].blocks |->
               IF "lines" \notin DOMAIN diffs[d].blocks[h] THEN <<>>
               ELSE SelectSeq(diffs[d].blocks[h].lines,
                              LAMBDA line : line.type \in {type, "context"})])]))

\* the count kept by diffs.forEach / blocks?.forEach / lines?.forEach for the
\* lines of one type
LineCount(diffs, type) ==
  Len(Flatten([d \in DOMAIN diffs |->
        IF "blocks" \notin DOMAIN diffs[d] THEN <<>>
        ELSE Flatten([h \in DOMAIN diffs[d].blocks |->
               IF "lines" \notin DOMAIN diffs[d].blocks[h] THEN <<>>
               ELSE SelectSeq(diffs[d].blocks[h].lines,
                              LAMBDA line : line.type = type)])]))

generateChangeSummary(diffs) ==
  [totalFiles |-> Len(diffs),
   addedLines |-> LineCount(diffs, "insert"),
   deletedLines |-> LineCount(diffs, "delete")]

\* activeFile ? generateChangeSummary(activeFile.diffs) : null
activeSummary(pf, tabId) ==
  IF activeFile(pf, tabId) = Null THEN Null
  ELSE generateChangeSummary(activeFile(pf, tabId).diffs)

\* ------------------------------------------------ vocabulary of the claims
\* the filenames shown in the "present in all patches" list
PresentSet(pf) ==
  IF combinedSummary(pf) = Null THEN {}
  ELSE Range(combinedSummary(pf).presentInAllPatches)

\* every filename of the disk's patches
FileNames == {"x.txt", "y.txt"}

\* patch `patchFile` has a FileDiff whose newName is f
HasNewName(patchFile, f) == \E d \in DOMAIN patchFile.diffs : patchFile.diffs[d].newName = f

EveryPatchHas(pf, f) == \A p \in DOMAIN pf : HasNewName(pf[p], f)

\* the positions of the collection `pf` held by patches of batch b
OfBatch(pf, b) == {p \in DOMAIN pf : pf[p].src[1] = b}

\* every patch created so far, loaded, pending in a closure or removed
Created == Flatten([b \in DOMAIN batches |-> batches[b].newFiles])

\* the patches of `prev` without its p-th
WithoutNth(prev, p) == SubSeq(prev, 1, p - 1) \o SubSeq(prev, p + 1, Len(prev))

\* ------------------------------------------- the comparison scenarios
\* onClick={() => handleFileNameClick(fileName)} of a name of the "present
\* in all patches" list; the open modal covers the list.  The effect runs
\* on the freshly mounted, empty container.
\* mutation: a failed comparison is also reported in the error state
handleFileNameClickReportsError(fileName) ==
  /\ ~isModalOpen
  /\ fileName \in PresentSet(patchFiles)
  /\ selectedFileName' = fileName
  /\ isModalOpen' = TRUE
  /\ \E throws \in BOOLEAN :
        /\ modal' = ModalEffect(patchFiles, fileName, TRUE, <<>>, throws)
        /\ error' = IF modal' # <<>> /\ Head(modal') = <<"warning">>
                      THEN <<"Could not generate comparison diff">> ELSE error
  /\ UNCHANGED <<callVars, patchFiles, activeTabId, batches, clock>>

handleFileNameClick(fileName) ==
  /\ ~isModalOpen
  /\ fileName \in PresentSet(patchFiles)
  /\ selectedFileName' = fileName
  /\ isModalOpen' = TRUE
  /\ \E throws \in BOOLEAN :
        modal' = ModalEffect(patchFiles, fileName, TRUE, <<>>, throws)
  /\ UNCHANGED <<callVars, patchFiles, activeTabId, error, batches, clock>>

\* closeModal: the close button of the modal; the container is unmounted
closeModal ==
  /\ isModalOpen
  /\ isModalOpen' = FALSE
  /\ selectedFileName' = NoName
  /\ modal' = <<>>
  /\ UNCHANGED <<callVars, patchFiles, activeTabId, error, batches, clock>>

\* largest number of patches of a collection the comparison starts from
MaxLoaded == 3

\* the patch files of the comparison scenarios: d.patch and v@@2.patch
\* change x.txt as a.patch does, m.patch changes only its mode, n.patch
\* does not touch it
SecX1c == [old |-> "x.txt", new |-> "x.txt",
           hunks |-> << << <<" ","c">>, <<"-","0">>, <<"+","1">> >> >>]
SecXMode == [old |-> "x.txt", new |-> "x.txt", hunks |-> <<>>]

ModalDisk ==
  << DiskFiles[1], DiskFiles[2], DiskFiles[3],
     [name |-> "d.patch", content |-> <<SecX1c>>],
     [name |-> "v@@2.patch", content |-> <<SecX1>>],
     [name |-> "m.patch", content |-> <<SecXMode, SecY>>],
     [name |-> "n.patch", content |-> <<SecY>>] >>

\* the orders in which the reads of n distinct files can complete
Completions(n) ==
  {s \in [1..n -> DOMAIN ModalDisk] : \A j, k \in 1..n : j # k => s[j] # s[k]}

\* The state after one batch of n <= MaxLoaded distinct files of ModalDisk,
\* selected while no patch was loaded, has been committed at time 0, the
\* reads having completed in the order s.
LoadedBy(s) ==
  LET n == Len(s)
      sel == SortedSeq(Range(s))
      pos(f) == CHOOSE i \in 1..n : sel[i] = f
      newFiles == [k \in 1..n |->
                     [id |-> FileId(0, pos(s[k]) - 1),
                      name |-> ModalDisk[s[k]].name,
                      diffs |-> parse(ModalDisk[s[k]].content),
                      src |-> <<1, pos(s[k])>>]]
  IN /\ patchFiles = newFiles
     /\ activeTabId = newFiles[1].id
     /\ error = NoError
     /\ batches = << [files |-> [i \in 1..n |-> ModalDisk[sel[i]]],
                      reader |-> [i \in 1..n |-> "loaded"],
                      newFiles |-> newFiles,
                      filesProcessed |-> n,
                      activeTabId |-> NoId] >>
     /\ clock = 0

InitModal ==
  /\ \E n \in 1..MaxLoaded : \E s \in Completions(n) : LoadedBy(s)
  /\ NoCall
  /\ isModalOpen = FALSE
  /\ selectedFileName = NoName
  /\ modal = <<>>

NextModal ==
  \/ \E fileName \in FileNames : handleFileNameClick(fileName)
  \/ closeModal
  \/ \E fileId \in RemovableIds : removeFile(fileId)

SpecModal == InitModal /\ [][NextModal]_vars

\* ------------------------------------------------- getFileContent on its own
\* The FileDiffs given to getFileContent: without blocks, or with at most
\* MaxBlocks blocks, each without lines or with at most MaxLines lines.
MaxBlocks == 2
MaxLines == 2

SeqsUpTo(S, n) == UNION {[1..k -> S] : k \in 0..n}

\* an inserted line, a deleted empty line and a context line
SomeLines == { <<"+","a">>, <<"-">>, <<" ","c">> }

SomeBlocks ==
  {ParseBlock(hunk) : hunk \in SeqsUpTo(SomeLines, MaxLines)}
    \cup {[header |-> "@@ -1 +1 @@"]}

SomeDiffs ==
  {[oldName |-> "x.txt", newName |-> "x.txt"]}
    \cup {[oldName |-> "x.txt", newName |-> "x.txt", blocks |-> blocks] :
             blocks \in SeqsUpTo(SomeBlocks, MaxBlocks)}

InitContent ==
  /\ patchFiles = <<>>
  /\ activeTabId = NoId
  /\ error = NoError
  /\ batches = <<>>
  /\ clock = 0
  /\ isModalOpen = FALSE
  /\ selectedFileName = NoName
  /\ modal = <<>>
  /\ argDiff \in SomeDiffs
  /\ fileContent = <<>>

\* const content = getFileContent(diff)
callGetFileContent ==
  /\ fileContent' = <<getFileContent(argDiff)>>
  /\ UNCHANGED <<argDiff, patchFiles, activeTabId, error, batches, clock, modalVars>>

\* the orders in which n blocks can be given
Orders(n) == {order \in [1..n -> 1..n] : \A j, k \in 1..n : j # k => order[j] # order[k]}

\* the FileDiff with the same blocks in another order
Reordered(diff, order) ==
  [diff EXCEPT !.blocks = [k \in DOMAIN order |-> diff.blocks[order[k]]]]

\* a further call of getFileContent, on the FileDiff of the previous call with
\* its blocks in the given order (the same FileDiff when the order is 1, 2, ...)
callGetFileContentReordered(order) ==
  /\ fileContent # <<>>
  /\ "blocks" \in DOMAIN argDiff
  /\ order \in Orders(Len(argDiff.blocks))
  /\ argDiff' = Reordered(argDiff, order)
  /\ fileContent' = <<getFileContent(argDiff')>>
  /\ UNCHANGED <<patchFiles, activeTabId, error, batches, clock, modalVars>>

NextContent ==
  \/ callGetFileContent
  \/ \E order \in UNION {Orders(n) : n \in 0..MaxBlocks} :
        callGetFileContentReordered(order)

SpecContent == InitContent /\ [][NextContent]_vars

\* ------------------------------------------------------------------ claims

\* C1: in every reachable state, whatever the interleaving of upload starts,
\* read completions and removals, the collection holds at most 5 patches.
AtMostFivePatches == Len(patchFiles) <= 5

\* C2: an upload of k >= 1 files while n patches are loaded and n + k > 5 is
\* rejected whole: it starts no read (no closure is created, so none of its
\* files can ever be added), leaves the collection and the active tab id as
\* they are, and sets the error to the capacity message.
RejectsOverCapacityBatch ==
  [][\A sel \in Selections :
        (/\ Len(sel) >= 1
         /\ Len(patchFiles) + Len(sel) > 5
         /\ handleFileUpload(sel))
        => (/\ batches' = batches
            /\ patchFiles' = patchFiles
            /\ activeTabId' = activeTabId
            /\ error' = <<"Maximum 5 patch files allowed">>)]_vars

\* a batch has been rejected for capacity while patches were loaded
WitnessRejected == error = CapacityError /\ Len(patchFiles) >= 1

\* C3: a step adds to the collection either nothing of a batch or, in that
\* one step, exactly one patch for each of its files, none having been added
\* before; and while a read of the batch is pending or has not produced a
\* patch, the collection holds no patch of the batch.
AtomicBatchCommit ==
  [][\A b \in DOMAIN batches' :
        LET before == IF b \in DOMAIN batches THEN OfBatch(patchFiles, b) ELSE {}
            after  == OfBatch(patchFiles', b)
            files  == batches'[b].files
        IN /\ Cardinality(after) > Cardinality(before)
                => /\ before = {}
                   /\ Cardinality(after) = Len(files)
                   /\ \A i \in DOMAIN files :
                         Cardinality({p \in after : patchFiles'[p].src = <<b, i>>}) = 1
           /\ (\E i \in DOMAIN files : batches'[b].reader[i] # "loaded")
                => after = {}]_vars

\* a batch of two files has been committed and both its patches are loaded
WitnessBatchCommitted ==
  \E b \in DOMAIN batches :
     /\ Len(batches[b].files) = 2
     /\ Cardinality(OfBatch(patchFiles, b)) = 2

\* C4: no two patches created during a session have the same id, be they
\* loaded together, still in a closure, or one of them already removed.
UniqueIds ==
  \A p, q \in DOMAIN Created : p # q => Created[p].id # Created[q].id

\* C5: when a read fails, the error names the file and the collection is
\* left as it is; and a batch one of whose reads has failed stays failed and
\* has no patch in the collection, the successes of the batch included.
ReadFailureBlocksBatch ==
  [][/\ \A b \in DOMAIN batches : \A i \in DOMAIN batches[b].files :
          readerOnerror(b, i)
            => /\ error' = <<"Error reading file: ", batches[b].files[i].name>>
               /\ patchFiles' = patchFiles
     /\ \A b \in DOMAIN batches' :
          (\E i \in DOMAIN batches'[b].files : batches'[b].reader[i] = "failed")
            => /\ OfBatch(patchFiles', b) = {}
               /\ \A c \in DOMAIN batches :
                     \A i \in DOMAIN batches[c].files :
                        batches[c].reader[i] = "failed" => batches'[c].reader[i] = "failed"]_vars

\* a batch holds a failed read next to a successful one, and the error names
\* the failed file
WitnessReadFailed ==
  \E b \in DOMAIN batches : \E i, j \in DOMAIN batches[b].files :
     /\ batches[b].reader[i] = "failed"
     /\ batches[b].reader[j] = "loaded"
     /\ error = ErrorReading(batches[b].files[i].name)

\* C6: removeFile(id) takes out of the collection exactly one patch, the one
\* whose id is id, and keeps the others in their order; when no loaded patch
\* has that id the collection is unchanged; the error is never touched.
RemovesExactlyOnePatch ==
  [][\A fileId \in RemovableIds :
        removeFile(fileId)
          => /\ error' = error
             /\ IF \E p \in DOMAIN patchFiles : patchFiles[p].id = fileId
                  THEN \E p \in DOMAIN patchFiles :
                          /\ patchFiles[p].id = fileId
                          /\ patchFiles' = WithoutNth(patchFiles, p)
                  ELSE patchFiles' = patchFiles]_vars

\* C7: a filename that is the newName of a FileDiff of every loaded patch
\* (N >= 1) is listed in presentInAllPatches.
ListedWhenInEveryPatch ==
  \A f \in FileNames :
     (Len(patchFiles) >= 1 /\ EveryPatchHas(patchFiles, f)) => f \in PresentSet(patchFiles)

\* C8: every filename listed in presentInAllPatches is the newName of a
\* FileDiff of every loaded patch.
ListedOnlyWhenInEveryPatch ==
  \A f \in PresentSet(patchFiles) : EveryPatchHas(patchFiles, f)

\* C9: commonFiles counts a patch once for a filename, however many of the
\* patch's FileDiffs carry it: the filename's list has one entry for each
\* loaded patch that has it as a newName.
CountsEachPatchOnce ==
  \A f \in DOMAIN commonFiles(patchFiles) :
     Len(commonFiles(patchFiles)[f]) =
        Cardinality({p \in DOMAIN patchFiles : HasNewName(patchFiles[p], f)})

\* C10 as stated: when every loaded patch has a FileDiff named x.txt (and
\* x.txt is therefore listed), removing one of them takes x.txt out of
\* presentInAllPatches.
RemovalUnlistsSharedFile ==
  [][\A fileId \in RemovableIds :
        (/\ removeFile(fileId)
         /\ \E p \in DOMAIN patchFiles : patchFiles[p].id = fileId
         /\ EveryPatchHas(patchFiles, "x.txt")
         /\ "x.txt" \in PresentSet(patchFiles))
        => "x.txt" \notin PresentSet(patchFiles')]_vars

\* C10 as amended: when every loaded patch has a FileDiff named f and f is
\* listed in presentInAllPatches, f is still listed after the removal of a
\* patch as long as a patch remains; once the collection is empty there is
\* no summary and nothing is listed.
RemovalKeepsSharedFile ==
  [][\A fileId \in RemovableIds : \A f \in FileNames :
        (/\ removeFile(fileId)
         /\ \E p \in DOMAIN patchFiles : patchFiles[p].id = fileId
         /\ EveryPatchHas(patchFiles, f)
         /\ f \in PresentSet(patchFiles))
        => IF patchFiles' # <<>>
             THEN f \in PresentSet(patchFiles')
             ELSE combinedSummary(patchFiles') = Null]_vars

\* a patch that had x.txt has been removed and the patch left lists x.txt
WitnessRemovedOneOfTwo ==
  /\ Len(patchFiles) = 1
  /\ "x.txt" \in PresentSet(patchFiles)
  /\ \E c \in DOMAIN Created :
        /\ HasNewName(Created[c], "x.txt")
        /\ \E b \in DOMAIN batches :
              /\ AllProcessed(batches[b])
              /\ Created[c].src[1] = b
              /\ \A p \in DOMAIN patchFiles : patchFiles[p].src # Created[c].src

\* C11: a filename that the loaded patches have only as the oldName of
\* FileDiffs without a newName is not listed in presentInAllPatches.
OnlyAsOldName(pf, f) ==
  /\ \E p \in DOMAIN pf : \E d \in DOMAIN pf[p].diffs :
        pf[p].diffs[d].oldName = f /\ pf[p].diffs[d].newName = NoName
  /\ \A p \in DOMAIN pf : \A d \in DOMAIN pf[p].diffs :
        pf[p].diffs[d].newName # f

DeletedFileNeverListed ==
  \A f \in FileNames : OnlyAsOldName(patchFiles, f) => f \notin PresentSet(patchFiles)

\* every loaded patch deletes x.txt, none has it as a newName, and the
\* summary lists another file
WitnessDeletedOnly ==
  /\ Len(patchFiles) >= 1
  /\ OnlyAsOldName(patchFiles, "x.txt")
  /\ \A p \in DOMAIN patchFiles : \E d \in DOMAIN patchFiles[p].diffs :
        patchFiles[p].diffs[d].oldName = "x.txt"
  /\ "y.txt" \in PresentSet(patchFiles)

\* ---------------------------------------- vocabulary of the comparison
\* patch `patchFile` has a FileDiff whose newName or oldName is f
Touching(patchFile, f) ==
  {d \in DOMAIN patchFile.diffs :
      patchFile.diffs[d].newName = f \/ patchFile.diffs[d].oldName = f}

\* the contributors of f: for each loaded patch that touches f, in load
\* order, the patch's name and its first FileDiff that touches f
Contributors(pf, f) ==
  LET ps == SortedSeq({p \in DOMAIN pf : Touching(pf[p], f) # {}})
  IN [k \in DOMAIN ps |->
        [patchName |-> pf[ps[k]].name,
         diff |-> pf[ps[k]].diffs[CHOOSE d \in Touching(pf[ps[k]], f) :
                                     \A e \in Touching(pf[ps[k]], f) : d <= e]]]

\* one individual diff view per contributor, in load order
IndividualViews(pf, f) ==
  [k \in DOMAIN Contributors(pf, f) |->
     <<"individual", Contributors(pf, f)[k].patchName, Contributors(pf, f)[k].diff>>]

\* the sections of one kind of the modal's content
SectionsOf(content, kinds) == SelectSeq(content, LAMBDA sec : sec[1] \in kinds)

\* the kind of the first section
FirstKind(content) == IF content = <<>> THEN "none" ELSE content[1][1]

\* the modal is open on a file with exactly two contributors, whose
\* reconstructed contents are equal / differ
PairOpen ==
  isModalOpen /\ Len(Contributors(patchFiles, selectedFileName)) = 2

SameContents ==
  LET c == Contributors(patchFiles, selectedFileName)
  IN getFileContent(c[1].diff) = getFileContent(c[2].diff)

\* C12: whenever the comparison has a contributor, every contributor is
\* rendered as its own individual diff view, whatever the pairwise outcome.
IndividualViewsAlwaysShown ==
  (isModalOpen /\ Len(Contributors(patchFiles, selectedFileName)) >= 1)
    => SectionsOf(modal, {"individual"}) = IndividualViews(patchFiles, selectedFileName)

\* C13: with exactly two contributors whose reconstructed contents are
\* identical, hasChanges is false (the "no changes" section is shown),
\* whatever the filename and the patch names.
IdenticalContentsNoChanges ==
  (PairOpen /\ SameContents) => FirstKind(modal) = "noChanges"

\* C14: with exactly two contributors whose reconstructed contents differ,
\* hasChanges is true (the pairwise branch shows the comparison, or the
\* warning of C16 when parsing throws), and when the comparison is shown the
\* output is the comparison section, then the individual section of the
\* first-loaded patch, then that of the second-loaded patch.
DifferentContentsCompared ==
  (PairOpen /\ ~SameContents)
    => LET c == Contributors(patchFiles, selectedFileName)
       IN /\ FirstKind(modal) \in {"comparison", "warning"}
          /\ FirstKind(modal) = "comparison"
               => /\ Len(modal) = 5
                  /\ modal[1][2] = c[1].patchName /\ modal[1][3] = c[2].patchName
                  /\ modal[2] = <<"heading">>
                  /\ modal[3] = <<"individual", c[1].patchName, c[1].diff>>
                  /\ modal[4] = <<"individual", c[2].patchName, c[2].diff>>
                  /\ modal[5] = <<"close">>

\* a.patch then b.patch are compared on x.txt and the comparison is shown
WitnessCompared ==
  /\ PairOpen /\ ~SameContents
  /\ FirstKind(modal) = "comparison"
  /\ patchFiles[1].name = "a.patch" /\ patchFiles[2].name = "b.patch"

\* C15: with a number of contributors other than 2 no pairwise section is
\* written and the content is exactly one individual view per contributor,
\* in load order; with no contributor the effect writes nothing and leaves
\* the error alone.
OnlyIndividualViewsUnlessPair ==
  [][isModalOpen'
       => LET n == Len(Contributors(patchFiles', selectedFileName'))
          IN /\ n = 0 => (modal' = modal /\ error' = error)
             /\ n \notin {0, 2} => modal' = IndividualViews(patchFiles', selectedFileName')]_vars

\* three contributors are shown as three individual views
WitnessThreeContributors ==
  /\ isModalOpen
  /\ Len(Contributors(patchFiles, selectedFileName)) = 3
  /\ Len(modal) = 3

\* C16: with exactly two contributors and hasChanges true, when the
\* comparison could not be produced the content is the warning followed by
\* the two individual diffs: no comparison section, nothing aborted, no error.
FailedComparisonFallsBack ==
  (PairOpen /\ FirstKind(modal) # "noChanges" /\ SectionsOf(modal, {"comparison"}) = <<>>)
    => /\ modal = << <<"warning">> >> \o IndividualViews(patchFiles, selectedFileName)
                  \o << <<"close">> >>
       /\ error = NoError

\* the warning is shown for two contributors
WitnessWarning == PairOpen /\ FirstKind(modal) = "warning"

\* C17: getFileDiffsFromAllPatches(f) has one entry for each loaded patch
\* that has a FileDiff with newName or oldName f, holding that patch's name
\* and its first such FileDiff, no other entry, in load order.
CollectsFirstMatchPerPatch ==
  \A f \in FileNames :
     getFileDiffsFromAllPatches(patchFiles, f) = Contributors(patchFiles, f)

\* the modal is open on x.txt, for which one patch has two FileDiffs and
\* another only an oldName
WitnessCollected ==
  /\ isModalOpen /\ selectedFileName = "x.txt"
  /\ \E p \in DOMAIN patchFiles : Cardinality(Touching(patchFiles[p], "x.txt")) = 2
  /\ \E p \in DOMAIN patchFiles :
        /\ Touching(patchFiles[p], "x.txt") # {}
        /\ ~HasNewName(patchFiles[p], "x.txt")

\* C18: opening the comparison ends in one of its outcomes (individual views
\* only, Changed, Unchanged, ComparisonFailed) and changes neither the error,
\* nor the patch collection, nor the active tab id.
CompareEndsWithoutSideEffects ==
  [][\A f \in FileNames :
        handleFileNameClick(f)
          => /\ error' = error
             /\ patchFiles' = patchFiles
             /\ activeTabId' = activeTabId
             /\ FirstKind(modal') \in {"individual", "comparison", "noChanges", "warning"}]_vars

\* an Unchanged comparison is on display and no error is set
WitnessUnchangedShown ==
  /\ isModalOpen /\ FirstKind(modal) = "noChanges"
  /\ error = NoError /\ Len(patchFiles) = 2

\* ----------------------------------- vocabulary of the reconstructed content
HunksOf(d) == IF "blocks" \in DOMAIN d THEN d.blocks ELSE <<>>
LinesOf(block) == IF "lines" \in DOMAIN block THEN block.lines ELSE <<>>

\* the insert and delete lines of d, in hunk order and then line order
ChangedLines(d) ==
  Flatten([h \in DOMAIN HunksOf(d) |->
             SelectSeq(LinesOf(HunksOf(d)[h]),
                       LAMBDA line : line.type \in {"insert", "delete"})])

\* each changed line without its first character, followed by a newline
TerminatedText(d) ==
  Flatten([k \in DOMAIN ChangedLines(d) |->
             SubSeq(ChangedLines(d)[k].content, 2, Len(ChangedLines(d)[k].content))
               \o <<"\n">>])

\* C19 as stated: the result is the concatenation, in hunk order and then
\* line order, of the content without its first character followed by a
\* newline, for every insert or delete line; context lines contribute nothing.
EveryChangedLineTerminated ==
  fileContent # <<>> => fileContent[1] = TerminatedText(argDiff)

\* C19 as amended: the same concatenation, with the newline between
\* consecutive lines only, none after the last line.
ChangedLinesSeparated ==
  fileContent # <<>>
    => fileContent[1] =
         IF TerminatedText(argDiff) = <<>> THEN <<>>
         ELSE SubSeq(TerminatedText(argDiff), 1, Len(TerminatedText(argDiff)) - 1)

\* the content of a FileDiff with two blocks that hold a deleted empty line,
\* a context line and an inserted line has been computed
WitnessTwoBlocksJoined ==
  /\ fileContent = << <<"\n", "a">> >>
  /\ Len(HunksOf(argDiff)) = 2
  /\ \E h \in 1..2 : \E k \in DOMAIN LinesOf(argDiff.blocks[h]) :
        argDiff.blocks[h].lines[k].type = "context"

\* C20: for a FileDiff without hunks (blocks absent or empty) the result is
\* the empty string, and the call returns.
NoHunksGivesEmptyString ==
  (fileContent # <<>> /\ HunksOf(argDiff) = <<>>) => fileContent = << <<>> >>

\* the content of a FileDiff without the blocks field has been computed
WitnessNoBlocksField ==
  /\ "blocks" \notin DOMAIN argDiff
  /\ argDiff \in SomeDiffs
  /\ fileContent # <<>>

\* the contents of the insert and delete lines of d without their first
\* character, in hunk order and then line order
DeprefixedLines(d) ==
  [k \in DOMAIN ChangedLines(d) |->
     SubSeq(ChangedLines(d)[k].content, 2, Len(ChangedLines(d)[k].content))]

\* C21 as stated: a further call on the same FileDiff gives the same string,
\* and a further call on the FileDiff with its hunks in another order gives
\* another string.
ReorderingHunksChangesContent ==
  [][(fileContent # <<>> /\ fileContent' # <<>>)
       => /\ argDiff' = argDiff => fileContent' = fileContent
          /\ argDiff' # argDiff => fileContent' # fileContent]_vars

\* C21 as amended: a further call on the same FileDiff gives the same string,
\* and a further call on the FileDiff with its hunks in another order gives
\* another string exactly when the reordering changes the sequence of the
\* de-prefixed insert and delete lines.
ReorderingLinesChangesContent ==
  [][(fileContent # <<>> /\ fileContent' # <<>>)
       => /\ argDiff' = argDiff => fileContent' = fileContent
          /\ fileContent' # fileContent
               <=> DeprefixedLines(argDiff') # DeprefixedLines(argDiff)]_vars

\* the content of a FileDiff has been computed whose two hunks, taken in the
\* other order, give another content
WitnessOrderMatters ==
  /\ fileContent # <<>>
  /\ Len(HunksOf(argDiff)) = 2
  /\ fileContent[1] # getFileContent(Reordered(argDiff, <<2, 1>>))

\* the lines of one type of a patch: FileDiff, hunk and line positions
LinesOfType(patchFile, type) ==
  {t \in UNION {UNION {{<<d, h, l>> : l \in DOMAIN patchFile.diffs[d].blocks[h].lines} :
                         h \in DOMAIN patchFile.diffs[d].blocks} :
                  d \in DOMAIN patchFile.diffs} :
     patchFile.diffs[t[1]].blocks[t[2]].lines[t[3]].type = type}

\* C22: the summary of a patch has totalFiles = the number of its FileDiffs,
\* addedLines = the number of its insert lines and deletedLines = the number
\* of its delete lines; context lines are not counted, and the summary shown
\* for the active patch is that of the active patch alone, whatever else is
\* loaded.
SummaryCountsOwnLines ==
  /\ \A p \in DOMAIN patchFiles :
        generateChangeSummary(patchFiles[p].diffs)
          = [totalFiles |-> Len(patchFiles[p].diffs),
             addedLines |-> Cardinality(LinesOfType(patchFiles[p], "insert")),
             deletedLines |-> Cardinality(LinesOfType(patchFiles[p], "delete"))]
  /\ \A p \in DOMAIN patchFiles :
        (patchFiles[p].id = activeTabId
           /\ \A q \in 1..(p - 1) : patchFiles[q].id # activeTabId)
          => activeSummary(patchFiles, activeTabId)
               = generateChangeSummary(patchFiles[p].diffs)

\* b.patch, which has a context line, is the active one of two loaded
\* patches and its summary is on display
WitnessSummaryOfActive ==
  /\ Len(patchFiles) = 2
  /\ \E p \in DOMAIN patchFiles :
        /\ patchFiles[p].name = "b.patch"
        /\ patchFiles[p].id = activeTabId
        /\ LinesOfType(patchFiles[p], "context") # {}
  /\ activeSummary(patchFiles, activeTabId)
       = [totalFiles |-> 2, addedLines |-> 2, deletedLines |-> 1]

\* C23: whenever the collection is not empty, activeTabId is the id of a
\* loaded patch, whatever the interleaving of uploads, read completions, tab
\* selections and removals.
ActiveTabIsLoaded ==
  patchFiles # <<>> => \E p \in DOMAIN patchFiles : patchFiles[p].id = activeTabId

\* every read of batch b has completed with content and produced a patch
AllLoaded(b) ==
  /\ b \in DOMAIN batches
  /\ \A i \in DOMAIN batches[b].files : batches[b].reader[i] = "loaded"

\* the collection holds a patch for every file of batch b
InCollection(b) ==
  /\ b \in DOMAIN batches
  /\ \A i \in DOMAIN batches[b].files :
        \E p \in DOMAIN patchFiles : patchFiles[p].src = <<b, i>>

\* C24: if every read of an accepted batch eventually completes with
\* non-empty content, then eventually the batch is committed, all its files
\* being in the collection, whatever is interleaved.
LoadedBatchIsCommitted ==
  \A b \in 1..MaxUploads : (<>AllLoaded(b)) => <>InCollection(b)

\* the second of two batches has been read and committed; the first is
\* still being read
WitnessLaterBatchCommitted ==
  /\ Len(batches) = 2
  /\ batches[1].reader[1] = "pending"
  /\ AllLoaded(2) /\ InCollection(2)

\* the content on display holds a pairwise section
PairwiseShown == SectionsOf(modal, {"comparison", "noChanges", "warning"}) # <<>>

\* C25: every filename listed in presentInAllPatches has exactly one
\* contributor per loaded patch, so a comparison opened from the list shows
\* the pairwise step exactly when 2 patches are loaded.
ListedHasContributorPerPatch ==
  /\ \A f \in PresentSet(patchFiles) :
        Len(Contributors(patchFiles, f)) = Len(patchFiles)
  /\ (isModalOpen /\ selectedFileName \in PresentSet(patchFiles))
        => (PairwiseShown <=> Len(patchFiles) = 2)

\* C26: a read that completes with empty content sets the error naming the
\* file, creates no patch and does not count toward the batch's counter; and
\* a batch with such a read has its counter below the number of its files and
\* no patch in the collection.
EmptyReadBlocksBatch ==
  [][/\ \A b \in DOMAIN batches : \A i \in DOMAIN batches[b].files :
          (readerOnload(b, i) /\ batches[b].files[i].content = <<>>)
            => /\ error' = <<"Failed to read file: ", batches[b].files[i].name>>
               /\ patchFiles' = patchFiles
               /\ batches'[b].newFiles = batches[b].newFiles
               /\ batches'[b].filesProcessed = batches[b].filesProcessed
     /\ \A b \in DOMAIN batches' :
          (\E i \in DOMAIN batches'[b].files : batches'[b].reader[i] = "empty")
            => /\ batches'[b].filesProcessed < Len(batches'[b].files)
               /\ OfBatch(patchFiles', b) = {}]_vars

\* a batch holds an empty read after a successful one, the error names the
\* empty file and nothing is loaded
WitnessEmptyRead ==
  \E b \in DOMAIN batches : \E i, j \in DOMAIN batches[b].files :
     /\ batches[b].reader[i] = "empty"
     /\ batches[b].reader[j] = "loaded"
     /\ error = FailedToRead(batches[b].files[i].name)
     /\ patchFiles = <<>>

\* C27: removeFile(id) makes the first remaining patch active when id is the
\* active patch and others remain, makes activeTabId the empty id when the
\* collection becomes empty, and leaves activeTabId as it is when id is not
\* the active patch and patches remain.
RemovalUpdatesActiveTab ==
  [][\A fileId \in RemovableIds :
        removeFile(fileId)
          => /\ (fileId = activeTabId /\ patchFiles' # <<>>)
                   => activeTabId' = patchFiles'[1].id
             /\ patchFiles' = <<>> => activeTabId' = <<>>
             /\ (fileId # activeTabId /\ patchFiles' # <<>>)
                   => activeTabId' = activeTabId]_vars

\* of two patches created with different ids, the first, which was made the
\* active one by its commit, has been removed, and the second is active
WitnessActiveMovedOn ==
  /\ Len(Created) = 2
  /\ Created[1].id # Created[2].id
  /\ patchFiles = <<Created[2]>>
  /\ activeTabId = Created[2].id

\* C28: each successful read puts its patch last in its batch's list, so that
\* the list is in completion order; the commit of the batch appends that list
\* after the patches loaded before, which keep their places and their order.
CommitAppendsInCompletionOrder ==
  [][\A b \in DOMAIN batches :
        /\ \A i \in DOMAIN batches[b].files :
              (batches[b].reader[i] = "pending" /\ batches'[b].reader[i] = "loaded")
                => /\ Len(batches'[b].newFiles) = Len(batches[b].newFiles) + 1
                   /\ SubSeq(batches'[b].newFiles, 1, Len(batches[b].newFiles))
                        = batches[b].newFiles
                   /\ batches'[b].newFiles[Len(batches'[b].newFiles)].src = <<b, i>>
        /\ (OfBatch(patchFiles, b) = {} /\ OfBatch(patchFiles', b) # {})
              => patchFiles' = patchFiles \o batches'[b].newFiles]_vars

\* the second batch has been committed after the patches of the first, and
\* its two patches stand in the reverse of the order of their selection
WitnessAppendedOutOfOrder ==
  /\ Len(batches) >= 2
  /\ OfBatch(patchFiles, 1) # {}
  /\ \E p \in DOMAIN patchFiles :
        /\ p + 1 \in DOMAIN patchFiles
        /\ patchFiles[p].src = <<2, 2>>
        /\ patchFiles[p + 1].src = <<2, 1>>
        /\ \A q \in OfBatch(patchFiles, 1) : q < p

\* C29: the commit of a batch clears the error, whatever set it; removing a
\* patch and selecting a tab leave the error as it is; so an error on
\* display goes away only in a step that commits a batch.
OnlyCommitClearsError ==
  [][/\ \A b \in DOMAIN batches :
          (OfBatch(patchFiles, b) = {} /\ OfBatch(patchFiles', b) # {}) => error' = <<>>
     /\ \A fileId \in RemovableIds : removeFile(fileId) => error' = error
     /\ \A p \in DOMAIN patchFiles : selectTab(p) => error' = error
     /\ (error # <<>> /\ error' = <<>>)
          => \E b \in DOMAIN batches :
                OfBatch(patchFiles, b) = {} /\ OfBatch(patchFiles', b) # {}]_vars

\* the read of the first batch has failed, the second batch has been
\* committed since, and no error is on display
WitnessErrorOfOtherBatchCleared ==
  /\ Len(batches) = 2
  /\ batches[1].reader[1] = "failed"
  /\ \A i \in DOMAIN batches[2].files : batches[2].reader[i] = "loaded"
  /\ error = NoError

====
